---------------------------- MODULE Spec2Model ----------------------------
(***************************************************************************)
(* A model of the request orchestration code of the brainus-ai examples:   *)
(*   process_batch        (examples/batch_processing.py)                   *)
(*   robust_query         (examples/error_handling.py)                     *)
(*   query_with_retry     (examples/flask_example.py)                      *)
(*   query_with_fallback  (examples/async_patterns.py)                     *)
(* One behaviour is one call of one of these functions: Init is the state  *)
(* before the call, a Call action binds the arguments, and the remaining   *)
(* actions are the steps of the called coroutine between its suspension    *)
(* points (a request awaited, a response received, a sleep).               *)
(* The remote service is the environment: the outcome of every request is  *)
(* chosen nondeterministically.                                            *)
(***************************************************************************)
EXTENDS Integers, Sequences, FiniteSets, TLC

VARIABLES
    fn,               \* the function that was called ("none" before the call)
    pc,               \* the position of the called coroutine
    queries,          \* process_batch: argument
    batch_size,       \* process_batch: argument
    i,                \* process_batch: the loop variable i of range(0, len(queries), batch_size)
    batch,            \* process_batch: queries[i:i + batch_size]
    tasks,            \* process_batch: one entry per task of the batch
    results,          \* process_batch: the list returned
    issued,           \* process_batch: number of requests issued so far for queries[k]
    responded,        \* process_batch: what the service answered to the request for queries[k]
    reordered,        \* process_batch: some response overtook an earlier request's response
    max_retries,      \* robust_query, query_with_retry: argument
    attempt,          \* robust_query, query_with_retry: the loop variable
    fallback_stores,  \* query_with_fallback: argument
    store_pos,        \* query_with_fallback: position of store_id in fallback_stores
    inflight,         \* the sequential functions: number of requests awaiting their response
    trace,            \* the sequential functions: requests (with outcome) and sleeps, in order
    ret,              \* the sequential functions: the value returned or the exception raised
    cache,            \* QueryView.post: Django's cache, cache key -> cached answer
    request,          \* QueryView.post: request.data of the request being handled
    response,         \* QueryView.post: the Response returned to the last request
    posts             \* QueryView.post: number of requests received so far

vars == <<fn, pc, queries, batch_size, i, batch, tasks, results, issued,
          responded, reordered, max_retries, attempt, fallback_stores, store_pos, inflight, trace, ret,
          cache, request, response, posts>>

batchVars == <<queries, batch_size, i, batch, tasks, results, issued, responded, reordered>>
retryVars == <<max_retries, attempt>>
fallbackVars == <<fallback_stores, store_pos>>
djangoVars == <<cache, request, response, posts>>

---------------------------------------------------------------------------
(* Bounds of the model.                                                    *)

MaxQueries == 4
MaxBatchSize == 3
MaxRetries == 4
MaxRetryAfter == 2
MaxStores == 3
MaxSeqQueries == 2
MaxPosts == 3

QueryTexts == {"q1", "q2"}
Stores == {"primary", "secondary", "default"}

Min(a, b) == IF a < b THEN a ELSE b

RECURSIVE Pow2(_)
Pow2(n) == IF n = 0 THEN 1 ELSE 2 * Pow2(n - 1)

SeqsUpTo(S, n) == UNION {[1..k -> S] : k \in 0..n}

---------------------------------------------------------------------------
(* The remote service, as the examples see it.                             *)

\* What client.query can do: return a QueryResult or raise one of the SDK's errors.
\* "Exception" is any exception that is not a BrainusError.
Outcomes == {"ok", "AuthenticationError", "RateLimitError", "QuotaExceededError",
             "APIError", "BrainusError", "Exception"}

\* RateLimitError.retry_after when the service sent no hint (Python's None).
NoHint == -1

\* The values of RateLimitError.retry_after.
RetryAfterHints == {NoHint} \cup (1..MaxRetryAfter)

\* result.answer of the QueryResult returned for a request.
Answer(q, store) == <<"answer", q, store>>

None == <<"None">>

\* isinstance(result, Exception)
IsException(o) == o # "ok"

---------------------------------------------------------------------------
(* Events of the trace.                                                    *)

\* The n-th request of the call, sent to store, with its outcome o; secs is the
\* retry_after of the RateLimitError it raised.
Request(n, store, o, h) == [ev |-> "request", n |-> n, store |-> store, out |-> o, secs |-> h]

\* asyncio.sleep(d), slept after the n-th request.
Sleep(n, d) == [ev |-> "sleep", n |-> n, store |-> "", out |-> "", secs |-> d]

\* Nothing returned or raised yet.
NoRet == [kind |-> "none", success |-> FALSE, error |-> "", answer |-> None,
          attempts |-> 0, store_used |-> ""]

\* return {...}
Return(success, error, answer, attempts, store) ==
    [kind |-> "return", success |-> success, error |-> error, answer |-> answer,
     attempts |-> attempts, store_used |-> store]

\* An exception leaves the function.
Raise(exc) == [NoRet EXCEPT !.kind = "raise", !.error = exc]

\* The query argument of the single-query functions.
query == "q1"

IsRequest(e) == e.ev = "request"
IsSleep(e) == e.ev = "sleep"
Requests(t) == {k \in DOMAIN t : IsRequest(t[k])}
Sleeps(t) == {k \in DOMAIN t : IsSleep(t[k])}

\* No request received yet, no Response returned yet.
NoRequest == [query |-> "", store_id |-> ""]
NoResponse == [status |-> 0, answer |-> None, cached |-> FALSE, error |-> ""]

Init ==
    /\ fn = "none"
    /\ pc = "idle"
    /\ queries = <<>>
    /\ batch_size = 1
    /\ i = 0
    /\ batch = <<>>
    /\ tasks = <<>>
    /\ results = <<>>
    /\ issued = <<>>
    /\ responded = <<>>
    /\ reordered = FALSE
    /\ max_retries = 0
    /\ attempt = 0
    /\ fallback_stores = <<>>
    /\ store_pos = 0
    /\ inflight = 0
    /\ trace = <<>>
    /\ ret = NoRet
    /\ cache = [k \in {} |-> None]
    /\ request = NoRequest
    /\ response = NoResponse
    /\ posts = 0

---------------------------------------------------------------------------
(* process_batch, examples/batch_processing.py.  The store_id argument is  *)
(* the same for every request and is left at its default; the entries'     *)
(* citations_count is left out.                                            *)

store_id == "default"
rate_limit_delay == 1

\* A slice whose end is inclusive: one query too many per batch.
BatchSlice_inclusive(qs, off, size) == SubSeq(qs, off + 1, Min(off + size + 1, Len(qs)))

\* queries[i:i + batch_size]
BatchSlice(qs, off, size) == SubSeq(qs, off + 1, Min(off + size, Len(qs)))

\* gather called without return_exceptions.
return_exceptions_default == FALSE

\* asyncio.gather(..., return_exceptions=True)
return_exceptions == TRUE

\* A wait for the first completed task instead of all of them.
GatherDone_first(ts) == \E k \in DOMAIN ts : ts[k].st = "done"

\* gather has a result for its awaiter: every task is done, or, without
\* return_exceptions, some task has raised.
GatherDone(ts) ==
    \/ \A k \in DOMAIN ts : ts[k].st = "done"
    \/ ~return_exceptions /\ \E k \in DOMAIN ts : ts[k].st = "done" /\ IsException(ts[k].out)

\* The await of gather raises instead of returning the list of results.
GatherRaises(ts) ==
    ~return_exceptions /\ \E k \in DOMAIN ts : ts[k].st = "done" /\ IsException(ts[k].out)

\* An entry built without the isinstance test: every result taken for a QueryResult.
Entry_unchecked(q, t) ==
    [query |-> q, answer |-> Answer(q, store_id), error |-> None, success |-> TRUE]

\* The entry appended for one (query, result) pair of zip(batch, batch_results).
Entry(q, t) ==
    IF IsException(t.out)
    THEN [query |-> q, answer |-> None, error |-> <<"error", t.out>>, success |-> FALSE]
    ELSE [query |-> q, answer |-> Answer(q, store_id), error |-> None, success |-> TRUE]

\* The entries of one batch, last task first.
BatchEntries_reversed(b, ts) ==
    [k \in 1..Min(Len(b), Len(ts)) |->
        Entry(b[Min(Len(b), Len(ts)) + 1 - k], ts[Min(Len(b), Len(ts)) + 1 - k])]

\* The entries of one batch, in the order of zip(batch, batch_results).
BatchEntries(b, ts) == [k \in 1..Min(Len(b), Len(ts)) |-> Entry(b[k], ts[k])]

\* The number of tasks of the current batch awaiting their response.
InFlight == Cardinality({k \in DOMAIN tasks : tasks[k].st = "inflight"})

\* process_batch(queries, batch_size): results = [], total_batches = ...
pb_Call ==
    /\ fn = "none"
    /\ \E qs \in SeqsUpTo(QueryTexts, MaxQueries), size \in (-1)..MaxBatchSize :
          /\ queries' = qs
          /\ batch_size' = size
          /\ issued' = [k \in 1..Len(qs) |-> 0]
          /\ responded' = [k \in 1..Len(qs) |-> "none"]
          \* (len(queries) + batch_size - 1) // batch_size: ZeroDivisionError
          /\ pc' = IF size = 0 THEN "raised" ELSE "for"
    /\ fn' = "process_batch"
    /\ results' = <<>>
    /\ i' = 0
    /\ UNCHANGED <<batch, tasks, reordered, retryVars, fallbackVars, inflight, trace, ret, djangoVars>>

\* range(0, len(queries), batch_size) yields i.
InRange == batch_size > 0 /\ i < Len(queries)

\* One iteration up to the await: the slice, the tasks, gather.
pb_Gather ==
    /\ fn = "process_batch" /\ pc = "for"
    /\ InRange
    /\ LET b == BatchSlice(queries, i, batch_size) IN
          /\ batch' = b
          /\ tasks' = [k \in 1..Len(b) |-> [st |-> "inflight", out |-> ""]]
          /\ issued' = [k \in DOMAIN issued |->
                          IF k \in (i + 1)..(i + Len(b)) THEN issued[k] + 1 ELSE issued[k]]
    /\ pc' = "gather"
    /\ UNCHANGED <<fn, queries, batch_size, i, results, responded, reordered,
                   retryVars, fallbackVars, inflight, trace, ret, djangoVars>>

\* The response to the request of task k arrives.
pb_Response ==
    /\ fn = "process_batch" /\ pc = "gather"
    /\ \E k \in DOMAIN tasks, o \in {"ok", "APIError"} :
          /\ tasks[k].st = "inflight"
          /\ tasks' = [tasks EXCEPT ![k] = [st |-> "done", out |-> o]]
          /\ responded' = IF i + k \in DOMAIN responded
                           THEN [responded EXCEPT ![i + k] = o] ELSE responded
          /\ reordered' = (reordered \/ \E j \in 1..(k - 1) : tasks[j].st = "inflight")
    /\ UNCHANGED <<fn, pc, queries, batch_size, i, batch, results, issued,
                   retryVars, fallbackVars, inflight, trace, ret, djangoVars>>

\* A pacing sleep after every batch, the last one too.
pb_MoreBatches_always(off, size, n) == TRUE

\* if i + batch_size < len(queries)
pb_MoreBatches(off, size, n) == off + size < n

\* gather returns: the entries are appended, then the pacing test.
pb_Collect ==
    /\ fn = "process_batch" /\ pc = "gather"
    /\ GatherDone(tasks)
    /\ IF GatherRaises(tasks)
       THEN /\ pc' = "raised"
            /\ UNCHANGED <<results, i>>
       ELSE /\ results' = results \o BatchEntries(batch, tasks)
            /\ IF pb_MoreBatches(i, batch_size, Len(queries))
               THEN pc' = "sleep" /\ i' = i
               ELSE pc' = "for" /\ i' = i + batch_size
    /\ UNCHANGED <<fn, queries, batch_size, batch, tasks, issued, responded, reordered,
                   retryVars, fallbackVars, inflight, trace, ret, djangoVars>>

\* await asyncio.sleep(rate_limit_delay), then the next i.
pb_Sleep ==
    /\ fn = "process_batch" /\ pc = "sleep"
    /\ trace' = Append(trace, Sleep(Len(results), rate_limit_delay))
    /\ i' = i + batch_size
    /\ pc' = "for"
    /\ UNCHANGED <<fn, queries, batch_size, batch, tasks, results, issued, responded,
                   reordered, retryVars, fallbackVars, inflight, ret, djangoVars>>

\* The range is exhausted: return results.
pb_Return ==
    /\ fn = "process_batch" /\ pc = "for"
    /\ ~InRange
    /\ pc' = "done"
    /\ UNCHANGED <<fn, batchVars, retryVars, fallbackVars, inflight, trace, ret, djangoVars>>

\* The caller cancels the task running process_batch while it is suspended
\* in gather or in the pacing sleep: gather cancels its tasks, and
\* CancelledError leaves process_batch, which has no handler for it.
pb_Cancel ==
    /\ fn = "process_batch" /\ pc \in {"gather", "sleep"}
    /\ tasks' = [k \in DOMAIN tasks |->
                    IF tasks[k].st = "inflight" /\ pc = "gather"
                    THEN [st |-> "cancelled", out |-> ""] ELSE tasks[k]]
    /\ ret' = Raise("CancelledError")
    /\ pc' = "cancelled"
    /\ UNCHANGED <<fn, queries, batch_size, i, batch, results, issued, responded,
                   reordered, retryVars, fallbackVars, inflight, trace, djangoVars>>

process_batch ==
    \/ pb_Call \/ pb_Gather \/ pb_Response \/ pb_Collect \/ pb_Sleep \/ pb_Return
    \/ pb_Cancel

---------------------------------------------------------------------------
(* robust_query, examples/error_handling.py.                               *)

\* A loop that never runs out of attempts.
rq_InLoop_unbounded(att, max) == TRUE

\* for attempt in range(max_retries)
rq_InLoop(att, max) == att < max

\* A handler that also retries an authentication failure.
rq_Retries_auth(o, att, max) ==
    \/ o = "RateLimitError"
    \/ o = "AuthenticationError"
    \/ o = "APIError" /\ att < max - 1

\* The except arms that end in continue.
rq_Retries(o, att, max) ==
    \/ o = "RateLimitError"
    \/ o = "APIError" /\ att < max - 1

\* A backoff that grows linearly.
rq_WaitTime_linear(o, h, att) == IF o = "RateLimitError" THEN h ELSE 2 * att

\* The argument of asyncio.sleep before the continue: e.retry_after, or 2 ** attempt.
rq_WaitTime(o, h, att) == IF o = "RateLimitError" THEN h ELSE Pow2(att)

\* The 'error' value of the dict returned by an except arm that returns.
rq_Error(o) ==
    CASE o = "AuthenticationError" -> "authentication_failed"
      [] o = "QuotaExceededError" -> "quota_exceeded"
      [] o = "APIError" -> "api_error"
      [] OTHER -> "unexpected_error"

\* The loop variable reported as it is, one less than the requests issued.
rq_Attempts_zero_based(att) == att

\* 'attempts': attempt + 1
rq_Attempts(att) == att + 1

\* robust_query(query, max_retries)
rq_Call ==
    /\ fn = "none"
    /\ fn' = "robust_query"
    /\ \E m \in 0..MaxRetries : max_retries' = m
    /\ attempt' = 0
    /\ pc' = "for"
    /\ UNCHANGED <<batchVars, fallbackVars, inflight, trace, ret, djangoVars>>

\* await client.query(query=query, store_id="default")
rq_Request ==
    /\ fn = "robust_query" /\ pc = "for"
    /\ rq_InLoop(attempt, max_retries)
    /\ inflight' = inflight + 1
    /\ pc' = "await"
    /\ UNCHANGED <<fn, batchVars, retryVars, fallbackVars, trace, ret, djangoVars>>

\* The request returns or raises; the try/except runs up to the return, the
\* raise, or the continue after the sleep.
rq_Response ==
    /\ fn = "robust_query" /\ pc = "await"
    /\ inflight' = inflight - 1
    /\ \E o \in Outcomes, hint \in RetryAfterHints :
          /\ (o # "RateLimitError" => hint = NoHint)
          /\ LET req == Request(attempt + 1, "default", o, hint)
                 wait == rq_WaitTime(o, hint, attempt) IN
             IF o = "ok"
             THEN /\ trace' = Append(trace, req)
                  /\ ret' = Return(TRUE, "", Answer(query, "default"), rq_Attempts(attempt), "")
                  /\ pc' = "done"
                  /\ UNCHANGED attempt
             ELSE IF o = "Exception"
             THEN \* not a BrainusError: no except arm matches
                  /\ trace' = Append(trace, req)
                  /\ ret' = Raise(o)
                  /\ pc' = "raised"
                  /\ UNCHANGED attempt
             ELSE IF rq_Retries(o, attempt, max_retries)
             THEN IF wait = NoHint
                  THEN \* asyncio.sleep(None) raises TypeError
                       /\ trace' = Append(trace, req)
                       /\ ret' = Raise("TypeError")
                       /\ pc' = "raised"
                       /\ UNCHANGED attempt
                  ELSE /\ trace' = trace \o <<req, Sleep(attempt + 1, wait)>>
                       /\ attempt' = attempt + 1
                       /\ pc' = "for"
                       /\ UNCHANGED ret
             ELSE /\ trace' = Append(trace, req)
                  /\ ret' = Return(FALSE, rq_Error(o), None, 0, "")
                  /\ pc' = "done"
                  /\ UNCHANGED attempt
    /\ UNCHANGED <<fn, batchVars, max_retries, fallbackVars, djangoVars>>

\* The loop ends: return {'error': 'max_retries_exceeded', ...}
rq_Exhausted ==
    /\ fn = "robust_query" /\ pc = "for"
    /\ ~rq_InLoop(attempt, max_retries)
    /\ ret' = Return(FALSE, "max_retries_exceeded", None, 0, "")
    /\ pc' = "done"
    /\ UNCHANGED <<fn, batchVars, retryVars, fallbackVars, inflight, trace, djangoVars>>

robust_query == rq_Call \/ rq_Request \/ rq_Response \/ rq_Exhausted

---------------------------------------------------------------------------
(* query_with_retry, examples/flask_example.py.                            *)

\* for attempt in range(max_retries)
qr_InLoop(att, max) == att < max

\* A handler that never re-raises and sleeps after the last attempt too.
qr_Reraises_never(att, max) == FALSE

\* if attempt == max_retries - 1: raise
qr_Reraises(att, max) == att = max - 1

\* query_with_retry(query, store_id, max_retries)
qr_Call ==
    /\ fn = "none"
    /\ fn' = "query_with_retry"
    /\ \E m \in 0..MaxRetries : max_retries' = m
    /\ attempt' = 0
    /\ pc' = "for"
    /\ UNCHANGED <<batchVars, fallbackVars, inflight, trace, ret, djangoVars>>

\* await client.query(query=query, store_id=store_id)
qr_Request ==
    /\ fn = "query_with_retry" /\ pc = "for"
    /\ qr_InLoop(attempt, max_retries)
    /\ inflight' = inflight + 1
    /\ pc' = "await"
    /\ UNCHANGED <<fn, batchVars, retryVars, fallbackVars, trace, ret, djangoVars>>

\* The request returns or raises.
qr_Response ==
    /\ fn = "query_with_retry" /\ pc = "await"
    /\ inflight' = inflight - 1
    /\ \E o \in Outcomes, hint \in RetryAfterHints :
          /\ (o # "RateLimitError" => hint = NoHint)
          /\ LET req == Request(attempt + 1, store_id, o, hint) IN
             IF o = "ok"
             THEN /\ trace' = Append(trace, req)
                  /\ ret' = Return(TRUE, "", Answer(query, store_id), 0, "")
                  /\ pc' = "done"
                  /\ UNCHANGED attempt
             ELSE IF o # "RateLimitError" \/ qr_Reraises(attempt, max_retries)
             THEN /\ trace' = Append(trace, req)
                  /\ ret' = Raise(o)
                  /\ pc' = "raised"
                  /\ UNCHANGED attempt
             ELSE IF hint = NoHint
             THEN \* asyncio.sleep(None) raises TypeError
                  /\ trace' = Append(trace, req)
                  /\ ret' = Raise("TypeError")
                  /\ pc' = "raised"
                  /\ UNCHANGED attempt
             ELSE /\ trace' = trace \o <<req, Sleep(attempt + 1, hint)>>
                  /\ attempt' = attempt + 1
                  /\ pc' = "for"
                  /\ UNCHANGED ret
    /\ UNCHANGED <<fn, batchVars, max_retries, fallbackVars, djangoVars>>

\* The loop ends without a return or a raise: the function returns None.
qr_FallOff ==
    /\ fn = "query_with_retry" /\ pc = "for"
    /\ ~qr_InLoop(attempt, max_retries)
    /\ ret' = Return(FALSE, "", None, 0, "")
    /\ pc' = "done"
    /\ UNCHANGED <<fn, batchVars, retryVars, fallbackVars, inflight, trace, djangoVars>>

query_with_retry == qr_Call \/ qr_Request \/ qr_Response \/ qr_FallOff

---------------------------------------------------------------------------
(* query_with_fallback, examples/async_patterns.py.                        *)

\* What the requests of the fallback chain are let to do in this model.
FallbackOutcomes == {"ok", "AuthenticationError", "QuotaExceededError", "APIError"}

\* The stores taken from the end of the list.
fb_StoreAt_reversed(stores, pos) == stores[Len(stores) + 1 - pos]

\* for store_id in fallback_stores: the pos-th store_id
fb_StoreAt(stores, pos) == stores[pos]

\* except Exception
fb_Caught(o) == IsException(o)

\* A loop that stops one store short of the end of the list.
fb_InLoop_short(stores, pos) == pos < Len(stores)

\* for store_id in fallback_stores: the list still has a pos-th store
fb_InLoop(stores, pos) == pos <= Len(stores)

\* A handler that tries the same store again after an APIError.
fb_NextPos_retry(pos, o) == IF o = "APIError" THEN pos ELSE pos + 1

\* continue: the loop goes on with the store after the pos-th
fb_NextPos(pos, o) == pos + 1

\* query_with_fallback(query, fallback_stores)
fb_Call ==
    /\ fn = "none"
    /\ fn' = "query_with_fallback"
    /\ \E stores \in SeqsUpTo(Stores, MaxStores) : fallback_stores' = stores
    /\ store_pos' = 1
    /\ pc' = "for"
    /\ UNCHANGED <<batchVars, retryVars, inflight, trace, ret, djangoVars>>

\* await client.query(query=query, store_id=store_id)
fb_Request ==
    /\ fn = "query_with_fallback" /\ pc = "for"
    /\ fb_InLoop(fallback_stores, store_pos)
    /\ inflight' = inflight + 1
    /\ pc' = "await"
    /\ UNCHANGED <<fn, batchVars, retryVars, fallbackVars, trace, ret, djangoVars>>

\* The request returns (return the result) or raises (continue).
fb_Response ==
    /\ fn = "query_with_fallback" /\ pc = "await"
    /\ inflight' = inflight - 1
    /\ \E o \in FallbackOutcomes :
          LET store == fb_StoreAt(fallback_stores, store_pos) IN
          /\ trace' = Append(trace, Request(store_pos, store, o, NoHint))
          /\ IF fb_Caught(o)
             THEN /\ store_pos' = fb_NextPos(store_pos, o)
                  /\ pc' = "for"
                  /\ UNCHANGED ret
             ELSE /\ ret' = Return(TRUE, "", Answer(query, store), 0, store)
                  /\ pc' = "done"
                  /\ UNCHANGED store_pos
    /\ UNCHANGED <<fn, batchVars, retryVars, fallback_stores, djangoVars>>

\* The list is exhausted: return {'error': 'All stores failed', ...}
fb_AllFailed ==
    /\ fn = "query_with_fallback" /\ pc = "for"
    /\ ~fb_InLoop(fallback_stores, store_pos)
    /\ ret' = Return(FALSE, "All stores failed", None, 0, "")
    /\ pc' = "done"
    /\ UNCHANGED <<fn, batchVars, retryVars, fallbackVars, inflight, trace, djangoVars>>

query_with_fallback == fb_Call \/ fb_Request \/ fb_Response \/ fb_AllFailed

---------------------------------------------------------------------------
(* query_single and query_with_timeout, examples/async_patterns.py.         *)

\* The timer of asyncio.wait_for fired after the n-th request was issued.
Timeout(n) == [ev |-> "timeout", n |-> n, store |-> "", out |-> "", secs |-> 0]

\* A handler that catches nothing.
qt_Catches_nothing(exc) == FALSE

\* except asyncio.TimeoutError
qt_Catches(exc) == exc = "TimeoutError"

\* query_with_timeout(query, timeout): wait_for starts query_single(query)
qt_Call ==
    /\ fn = "none"
    /\ fn' = "query_with_timeout"
    /\ pc' = "start"
    /\ UNCHANGED <<batchVars, retryVars, fallbackVars, inflight, trace, ret, djangoVars>>

\* query_single: await client.query(query=query, store_id=store_id)
qt_Request ==
    /\ fn = "query_with_timeout" /\ pc = "start"
    /\ inflight' = inflight + 1
    /\ pc' = "await"
    /\ UNCHANGED <<fn, batchVars, retryVars, fallbackVars, trace, ret, djangoVars>>

\* The request returns or raises before the timer fires: query_single
\* returns its dict or raises, and so does wait_for.
qt_Response ==
    /\ fn = "query_with_timeout" /\ pc = "await"
    /\ inflight' = inflight - 1
    /\ \E o \in Outcomes :
          /\ trace' = Append(trace, Request(1, store_id, o, NoHint))
          /\ IF o = "ok"
             THEN /\ ret' = Return(TRUE, "", Answer(query, store_id), 0, "")
                  /\ pc' = "done"
             ELSE IF qt_Catches(o)
             THEN /\ ret' = Return(FALSE, "Query timed out", None, 0, "")
                  /\ pc' = "done"
             ELSE /\ ret' = Raise(o)
                  /\ pc' = "raised"
    /\ UNCHANGED <<fn, batchVars, retryVars, fallbackVars, djangoVars>>

\* The timer of wait_for fires first: query_single is cancelled, with its
\* request if one is in flight, and wait_for raises TimeoutError.
qt_Timeout ==
    /\ fn = "query_with_timeout" /\ pc \in {"start", "await"}
    /\ inflight' = 0
    /\ trace' = IF pc = "await"
                 THEN trace \o <<Request(1, store_id, "cancelled", NoHint), Timeout(1)>>
                 ELSE Append(trace, Timeout(0))
    /\ IF qt_Catches("TimeoutError")
       THEN /\ ret' = Return(FALSE, "Query timed out", None, 0, "")
            /\ pc' = "done"
       ELSE /\ ret' = Raise("TimeoutError")
            /\ pc' = "raised"
    /\ UNCHANGED <<fn, batchVars, retryVars, fallbackVars, djangoVars>>

query_with_timeout == qt_Call \/ qt_Request \/ qt_Response \/ qt_Timeout

---------------------------------------------------------------------------
(* query_multiple, examples/async_patterns.py.                             *)

\* asyncio.gather(*tasks) has a result for its awaiter: every task is done,
\* or some task has raised.
qm_GatherDone(ts) ==
    \/ \A k \in DOMAIN ts : ts[k].st = "done"
    \/ \E k \in DOMAIN ts : ts[k].st = "done" /\ IsException(ts[k].out)

\* The exceptions that gather can raise to its awaiter.
qm_GatherRaises(ts) == {ts[k].out : k \in {j \in DOMAIN ts : ts[j].st = "done" /\ IsException(ts[j].out)}}

\* The dict built for one (q, r) pair of zip(queries, results).
qm_Entry(q, t) == [query |-> q, answer |-> Answer(q, store_id), error |-> None, success |-> TRUE]

\* query_multiple(queries): one task per query, all awaited by one gather
qm_Call ==
    /\ fn = "none"
    /\ fn' = "query_multiple"
    /\ \E qs \in SeqsUpTo(QueryTexts, MaxQueries) :
          /\ queries' = qs
          /\ tasks' = [k \in 1..Len(qs) |-> [st |-> "inflight", out |-> ""]]
          /\ issued' = [k \in 1..Len(qs) |-> 1]
          /\ responded' = [k \in 1..Len(qs) |-> "none"]
    /\ pc' = "gather"
    /\ UNCHANGED <<batch_size, i, batch, results, reordered, retryVars, fallbackVars,
                   inflight, trace, ret, djangoVars>>

\* The response to the request of task k arrives.
qm_Response ==
    /\ fn = "query_multiple" /\ pc = "gather"
    /\ \E k \in DOMAIN tasks, o \in {"ok", "APIError"} :
          /\ tasks[k].st = "inflight"
          /\ tasks' = [tasks EXCEPT ![k] = [st |-> "done", out |-> o]]
          /\ responded' = [responded EXCEPT ![k] = o]
          /\ reordered' = (reordered \/ \E j \in 1..(k - 1) : tasks[j].st = "inflight")
    /\ UNCHANGED <<fn, pc, queries, batch_size, i, batch, results, issued,
                   retryVars, fallbackVars, inflight, trace, ret, djangoVars>>

\* gather returns the results, or raises the exception of a task.
qm_Collect ==
    /\ fn = "query_multiple" /\ pc = "gather"
    /\ qm_GatherDone(tasks)
    /\ IF qm_GatherRaises(tasks) # {}
       THEN /\ \E exc \in qm_GatherRaises(tasks) : ret' = Raise(exc)
            /\ pc' = "raised"
            /\ UNCHANGED results
       ELSE /\ results' = [k \in DOMAIN tasks |-> qm_Entry(queries[k], tasks[k])]
            /\ ret' = ret
            /\ pc' = "done"
    /\ UNCHANGED <<fn, queries, batch_size, i, batch, tasks, issued, responded, reordered,
                   retryVars, fallbackVars, inflight, trace, djangoVars>>

query_multiple == qm_Call \/ qm_Response \/ qm_Collect

---------------------------------------------------------------------------
(* batch_with_error_handling, examples/error_handling.py: the queries one  *)
(* after the other, each retried once after a rate limit.  i is the index  *)
(* of enumerate(queries, 1); trace holds Request(i, ...), Sleep(i, ...)    *)
(* and Pause(i) events.                                                    *)

\* What client.query does in this function: every exception but RateLimitError
\* takes the same except arm, APIError stands for them.
bw_Outcomes == {"ok", "RateLimitError", "APIError"}

\* await asyncio.sleep(0.5), the small delay after the i-th query.
Pause(n) == [ev |-> "pause", n |-> n, store |-> "", out |-> "", secs |-> 0]

\* except RateLimitError as e (of the first attempt)
bw_Retries(o) == o = "RateLimitError"

\* results.append({'query': query, 'answer': result.answer, 'success': True})
bw_Success(q) == [query |-> q, answer |-> Answer(q, "default"), error |-> None, success |-> TRUE]

\* results.append({'query': query, 'error': str(e), 'success': False})
bw_Failure(q, o) == [query |-> q, answer |-> None, error |-> <<"error", o>>, success |-> FALSE]

\* if i < len(queries)
bw_MoreQueries(idx, n) == idx < n

\* batch_with_error_handling(queries)
bw_Call ==
    /\ fn = "none"
    /\ fn' = "batch_with_error_handling"
    /\ \E qs \in SeqsUpTo(QueryTexts, MaxSeqQueries) :
          /\ queries' = qs
          /\ issued' = [k \in 1..Len(qs) |-> 0]
    /\ results' = <<>>
    /\ i' = 1
    /\ pc' = "for"
    /\ UNCHANGED <<batch_size, batch, tasks, responded, reordered, retryVars, fallbackVars,
                   inflight, trace, ret, djangoVars>>

\* for i, query in enumerate(queries, 1): the first client.query of the query
bw_Request ==
    /\ fn = "batch_with_error_handling" /\ pc = "for"
    /\ i <= Len(queries)
    /\ inflight' = inflight + 1
    /\ issued' = [issued EXCEPT ![i] = @ + 1]
    /\ pc' = "await"
    /\ UNCHANGED <<fn, queries, batch_size, i, batch, tasks, results, responded, reordered,
                   retryVars, fallbackVars, trace, ret, djangoVars>>

\* The first attempt returns or raises: success and failure are recorded, a
\* rate limit is slept off (asyncio.sleep(e.retry_after), which raises
\* TypeError out of the except arm when there is no hint) before the retry.
bw_Response ==
    /\ fn = "batch_with_error_handling" /\ pc = "await"
    /\ inflight' = inflight - 1
    /\ \E o \in bw_Outcomes :
       \E h \in (IF o = "RateLimitError" THEN RetryAfterHints ELSE {NoHint}) :
          IF bw_Retries(o)
          THEN IF h = NoHint
               THEN /\ trace' = Append(trace, Request(i, "default", o, h))
                    /\ ret' = Raise("TypeError")
                    /\ pc' = "raised"
                    /\ UNCHANGED results
               ELSE /\ trace' = trace \o <<Request(i, "default", o, h), Sleep(i, h)>>
                    /\ pc' = "retry"
                    /\ UNCHANGED <<results, ret>>
          ELSE /\ trace' = Append(trace, Request(i, "default", o, h))
               /\ results' = Append(results, IF IsException(o) THEN bw_Failure(queries[i], o)
                                                               ELSE bw_Success(queries[i]))
               /\ pc' = "delay"
               /\ UNCHANGED ret
    /\ UNCHANGED <<fn, queries, batch_size, i, batch, tasks, issued, responded, reordered,
                   retryVars, fallbackVars, djangoVars>>

\* # Retry once: the second client.query of the query
bw_Retry ==
    /\ fn = "batch_with_error_handling" /\ pc = "retry"
    /\ inflight' = inflight + 1
    /\ issued' = [issued EXCEPT ![i] = @ + 1]
    /\ pc' = "await_retry"
    /\ UNCHANGED <<fn, queries, batch_size, i, batch, tasks, results, responded, reordered,
                   retryVars, fallbackVars, trace, ret, djangoVars>>

\* The retry returns or raises: except Exception as retry_error records any failure.
bw_RetryResponse ==
    /\ fn = "batch_with_error_handling" /\ pc = "await_retry"
    /\ inflight' = inflight - 1
    /\ \E o \in bw_Outcomes :
          /\ trace' = Append(trace, Request(i, "default", o, NoHint))
          /\ results' = Append(results, IF IsException(o) THEN bw_Failure(queries[i], o)
                                                          ELSE bw_Success(queries[i]))
    /\ pc' = "delay"
    /\ UNCHANGED <<fn, queries, batch_size, i, batch, tasks, issued, responded, reordered,
                   retryVars, fallbackVars, ret, djangoVars>>

\* if i < len(queries): await asyncio.sleep(0.5); then the next query
bw_Delay ==
    /\ fn = "batch_with_error_handling" /\ pc = "delay"
    /\ trace' = IF bw_MoreQueries(i, Len(queries)) THEN Append(trace, Pause(i)) ELSE trace
    /\ i' = i + 1
    /\ pc' = "for"
    /\ UNCHANGED <<fn, queries, batch_size, batch, tasks, results, issued, responded, reordered,
                   retryVars, fallbackVars, inflight, ret, djangoVars>>

\* return results
bw_Return ==
    /\ fn = "batch_with_error_handling" /\ pc = "for"
    /\ i > Len(queries)
    /\ pc' = "done"
    /\ UNCHANGED <<fn, batchVars, retryVars, fallbackVars, inflight, trace, ret, djangoVars>>

batch_with_error_handling ==
    bw_Call \/ bw_Request \/ bw_Response \/ bw_Retry \/ bw_RetryResponse \/ bw_Delay \/ bw_Return

---------------------------------------------------------------------------
(* QueryView.post, examples/django_example.py: a behaviour is a sequence   *)
(* of POST requests handled one after the other by the same process, which *)
(* keeps Django's cache between them.                                      *)

\* cache_key = f"brainus_{hashlib.md5(query.encode()).hexdigest()}": a digest
\* of the query text alone; the texts of QueryTexts have distinct digests.
CacheKey(q) == <<"brainus_", "md5", q>>

\* Response({...}) with 'cached': True or False
dj_Ok(answer, cached) == [status |-> 200, answer |-> answer, cached |-> cached, error |-> ""]

\* Response({'error': ...}, status=400)
dj_BadRequest(err) == [status |-> 400, answer |-> None, cached |-> FALSE, error |-> err]

\* An exception that post does not catch: Django answers 500.
dj_ServerError(err) == [status |-> 500, answer |-> None, cached |-> FALSE, error |-> err]

\* except BrainusError: the SDK's errors, all subclasses of BrainusError
dj_Caught(o) == o \in {"AuthenticationError", "RateLimitError", "QuotaExceededError",
                       "APIError", "BrainusError"}

\* await cache.aset(cache_key, result.answer, 3600)
dj_CacheSet(c, key, answer) == [k \in DOMAIN c \cup {key} |-> IF k = key THEN answer ELSE c[k]]

\* post(request) up to the request to the service: a missing query is
\* refused, a cached answer is returned, otherwise client.query is awaited.
dj_Post ==
    /\ fn \in {"none", "QueryView.post"} /\ pc = "idle"
    /\ posts < MaxPosts
    /\ fn' = "QueryView.post"
    /\ posts' = posts + 1
    /\ \E q \in QueryTexts \cup {""}, s \in Stores :
          /\ request' = [query |-> q, store_id |-> s]
          /\ IF q = ""
             THEN /\ response' = dj_BadRequest("Query is required")
                  /\ UNCHANGED <<pc, inflight>>
             ELSE IF CacheKey(q) \in DOMAIN cache
                  THEN /\ response' = dj_Ok(cache[CacheKey(q)], TRUE)
                       /\ UNCHANGED <<pc, inflight>>
                  ELSE /\ pc' = "await"
                       /\ inflight' = inflight + 1
                       /\ response' = NoResponse
    /\ UNCHANGED <<batchVars, retryVars, fallbackVars, trace, ret, cache>>

\* client.query(query=query, store_id=store_id) returns or raises: an answer
\* is cached for an hour and returned, a BrainusError is answered with 400.
dj_Response ==
    /\ fn = "QueryView.post" /\ pc = "await"
    /\ inflight' = inflight - 1
    /\ pc' = "idle"
    /\ \E o \in Outcomes :
          IF o = "ok"
          THEN /\ cache' = dj_CacheSet(cache, CacheKey(request.query),
                                       Answer(request.query, request.store_id))
               /\ response' = dj_Ok(Answer(request.query, request.store_id), FALSE)
          ELSE /\ response' = IF dj_Caught(o) THEN dj_BadRequest(o) ELSE dj_ServerError(o)
               /\ UNCHANGED cache
    /\ UNCHANGED <<fn, batchVars, retryVars, fallbackVars, trace, ret, request, posts>>

\* A cache entry reaches its timeout of 3600 seconds.
dj_Expire ==
    /\ fn = "QueryView.post"
    /\ \E key \in DOMAIN cache :
          cache' = [k \in DOMAIN cache \ {key} |-> cache[k]]
    /\ UNCHANGED <<fn, pc, batchVars, retryVars, fallbackVars, inflight, trace, ret,
                   request, response, posts>>

QueryView_post == dj_Post \/ dj_Response \/ dj_Expire

---------------------------------------------------------------------------

Next ==
    \/ process_batch \/ robust_query \/ query_with_retry \/ query_with_fallback
    \/ query_with_timeout \/ query_multiple
    \/ batch_with_error_handling \/ QueryView_post

Spec == Init /\ [][Next]_vars

---------------------------------------------------------------------------
(* Claims about process_batch.                                             *)

PBValid == fn = "process_batch" /\ batch_size >= 1

\* C1: for batch_size >= 1, the entries of results are, in order, the entries
\* of queries[1], queries[2], ...: entry k names queries[k] and reports the
\* outcome of the request issued for queries[k]; the list returned has
\* exactly len(queries) entries.
C1_ReportInSubmissionOrder ==
    PBValid =>
        /\ Len(results) <= Len(queries)
        /\ \A k \in 1..Len(results) :
              /\ results[k].query = queries[k]
              /\ results[k].success = (responded[k] = "ok")
        /\ (pc = "done" => Len(results) = Len(queries))

\* C1 witness: a returned report over several batches, with two different
\* queries, a failure, and a response that overtook an earlier request's.
C1_Witness ==
    /\ PBValid /\ pc = "done"
    /\ Len(queries) = 4 /\ batch_size = 3
    /\ queries[1] # queries[2]
    /\ reordered
    /\ \E j, k \in 1..Len(results) : results[j].success /\ ~results[k].success

\* C2: for batch_size >= 1, process_batch never raises, and when it returns
\* every query has been requested, whatever requests failed.
C2_FailureDoesNotAbort ==
    PBValid =>
        /\ pc # "raised"
        /\ (pc = "done" => \A k \in DOMAIN issued : issued[k] = 1)
        /\ (pc = "done" => Len(results) = Len(queries))

\* C2 witness: the first request failed, and the call returned with the
\* queries of the same batch and of a later batch requested.
C2_Witness ==
    /\ PBValid /\ pc = "done"
    /\ batch_size = 2 /\ Len(queries) = 4
    /\ responded[1] = "APIError"
    /\ responded[2] = "ok" /\ responded[4] = "ok"

\* C3: for batch_size >= 1, at most batch_size requests are in flight.
C3_InFlightBounded == PBValid => InFlight <= batch_size

\* C3 witness: a later batch with batch_size requests in flight.
C3_Witness == PBValid /\ i > 0 /\ batch_size >= 2 /\ InFlight = batch_size

\* A query of the current batch is still in flight, another has finished,
\* and queries are still queued.
SlowQueryWithQueue ==
    /\ PBValid /\ pc = "gather"
    /\ \E k \in DOMAIN tasks : tasks[k].st = "done"
    /\ InFlight > 0 /\ InFlight < batch_size
    /\ i + Len(batch) < Len(queries)

\* C4, as claimed: whenever a query has finished while queries are queued and
\* fewer than batch_size are in flight, the admission of queued queries is
\* enabled.
C4_NoHeadOfLineBlocking == SlowQueryWithQueue => ENABLED pb_Gather

\* C4, amended: in process_batch queries are admitted only when every query admitted before
\* has been answered (the whole previous batch has finished).
C4_AdmissionAfterWholeBatch ==
    [][(fn = "process_batch"
          /\ \E k \in DOMAIN issued : k \in DOMAIN issued' /\ issued'[k] > issued[k])
        => \A k \in DOMAIN issued : issued[k] > 0 => responded[k] # "none"]_vars

\* C4 witness: a later batch is in flight, admitted after a batch in which a
\* slow query was overtaken by a later one.
C4_Witness ==
    /\ PBValid /\ pc = "gather" /\ batch_size >= 2
    /\ i > 0 /\ InFlight > 0
    /\ reordered

---------------------------------------------------------------------------
(* Claims about robust_query, query_with_retry and query_with_fallback.    *)

\* The requests issued so far: those answered and the one awaited.
NumRequests == Cardinality(Requests(trace)) + inflight

\* C5, as claimed: when robust_query returns the terminal api_error after an
\* APIError on every attempt, it has issued max_retries + 1 requests (4 for
\* max_retries = 3).
C5_InitialAttemptPlusMaxRetries ==
    (/\ fn = "robust_query" /\ pc = "done"
     /\ ret.error = "api_error"
     /\ \A k \in Requests(trace) : trace[k].out = "APIError")
    => NumRequests = max_retries + 1

\* The outcomes after which robust_query must not try again.
TerminalOutcomes == {"ok", "AuthenticationError", "QuotaExceededError", "BrainusError"}

\* C6: in robust_query a success, or an authentication, quota or generic
\* BrainusError failure, is the last event of the call: no request and no
\* sleep follows it, and the call has returned the matching outcome.
C6_TerminalOutcomeOnce ==
    fn = "robust_query" =>
        \A k \in Requests(trace) :
            trace[k].out \in TerminalOutcomes =>
                /\ k = Len(trace)
                /\ inflight = 0
                /\ pc = "done"
                /\ ret.kind = "return"
                /\ ret.success = (trace[k].out = "ok")
                /\ (trace[k].out = "AuthenticationError" => ret.error = "authentication_failed")
                /\ (trace[k].out = "QuotaExceededError" => ret.error = "quota_exceeded")
                /\ (trace[k].out = "BrainusError" => ret.error = "unexpected_error")

\* C6 witness: an authentication failure on the first attempt, with retries
\* allowed, ended the call after one request and no sleep.
C6_Witness ==
    /\ fn = "robust_query" /\ pc = "done" /\ max_retries = 3
    /\ Len(trace) = 1 /\ trace[1].out = "AuthenticationError"
    /\ ret.error = "authentication_failed"

\* C7: in robust_query the requests are numbered 1, 2, 3, ..., the sleep after
\* an APIError failure of request n lasts 2^(n-1) seconds, and of two
\* APIError retries in a row the second waits twice as long as the first.
C7_ExponentialBackoff ==
    fn = "robust_query" =>
        /\ \A k \in Requests(trace) :
              trace[k].n = Cardinality({j \in Requests(trace) : j <= k})
        /\ \A k \in Sleeps(trace) :
              /\ k > 1 /\ IsRequest(trace[k - 1])
              /\ trace[k - 1].out = "APIError" => trace[k].secs = Pow2(trace[k - 1].n - 1)
              /\ (k > 3 /\ trace[k - 1].out = "APIError" /\ trace[k - 3].out = "APIError")
                    => trace[k].secs = 2 * trace[k - 2].secs

\* C7 witness: three APIError retries in a row, after 1, 2 and 4 seconds.
C7_Witness ==
    /\ fn = "robust_query"
    /\ Len(trace) >= 6
    /\ \A k \in {1, 3, 5} : trace[k].out = "APIError"
    /\ trace[2].secs = 1 /\ trace[4].secs = 2 /\ trace[6].secs = 4

\* C8: robust_query and query_with_retry issue at most max_retries requests
\* and sleep at most as often, whatever the failures; a sleep that follows a
\* RateLimitError lasts exactly that error's retry_after.
C8_RateLimitRetriesBounded ==
    fn \in {"robust_query", "query_with_retry"} =>
        /\ NumRequests <= max_retries
        /\ Cardinality(Sleeps(trace)) <= NumRequests
        /\ Len(trace) <= 2 * max_retries
        /\ \A k \in Sleeps(trace) :
              (k > 1 /\ trace[k - 1].out = "RateLimitError")
                => trace[k].secs = trace[k - 1].secs /\ trace[k].secs # NoHint

\* C8 witness: every one of three attempts was rate limited and robust_query
\* gave up.
C8_Witness ==
    /\ fn = "robust_query" /\ pc = "done" /\ max_retries = 3
    /\ ret.error = "max_retries_exceeded"
    /\ Cardinality(Requests(trace)) = 3
    /\ \A k \in Requests(trace) : trace[k].out = "RateLimitError"

\* C9, as claimed: a RateLimitError on an attempt that is not the last one is
\* followed by a sleep and a retry: of the retry_after when the error carries
\* one, of a default floor when it carries none.
C9_RetryAfterHintOrFloor ==
    fn \in {"robust_query", "query_with_retry"} =>
        \A k \in Requests(trace) :
            (trace[k].out = "RateLimitError" /\ trace[k].n < max_retries) =>
                /\ k < Len(trace)
                /\ IsSleep(trace[k + 1])
                /\ trace[k + 1].secs >= 0
                /\ (trace[k].secs # NoHint => trace[k + 1].secs = trace[k].secs)
                /\ pc # "raised"

\* C10: the requests of query_with_fallback go to fallback_stores[1],
\* fallback_stores[2], ... in this order, one each; only the last one can have
\* succeeded, and then the call has returned with that store as store_used.
C10_FallbackInListOrder ==
    fn = "query_with_fallback" =>
        /\ Len(trace) <= Len(fallback_stores)
        /\ \A k \in DOMAIN trace :
              /\ IsRequest(trace[k])
              /\ trace[k].store = fallback_stores[k]
              /\ trace[k].out = "ok" => k = Len(trace)
        /\ (pc = "done" /\ ret.success) =>
              /\ Len(trace) >= 1 /\ inflight = 0
              /\ trace[Len(trace)].out = "ok"
              /\ ret.store_used = fallback_stores[Len(trace)]
        /\ (\E k \in DOMAIN trace : trace[k].out = "ok") => (pc = "done" /\ ret.success)

\* C10 witness: the second store answered after the first failed, and the
\* third, a different one, was never asked.
C10_Witness ==
    /\ fn = "query_with_fallback" /\ pc = "done" /\ ret.success
    /\ fallback_stores = <<"primary", "secondary", "default">>
    /\ Len(trace) = 2 /\ trace[1].out = "APIError"
    /\ ret.store_used = "secondary"

\* C11: query_with_fallback never raises, and when it has returned, it has
\* returned the 'All stores failed' failure exactly if every store of the
\* list was requested and every request failed.
C11_AllStoresFailedIffExhausted ==
    fn = "query_with_fallback" =>
        /\ pc # "raised"
        /\ pc = "done" =>
              /\ ret.kind = "return"
              /\ (ret.error = "All stores failed" /\ ~ret.success)
                    <=> /\ Len(trace) = Len(fallback_stores)
                        /\ \A k \in DOMAIN trace : IsException(trace[k].out)
              /\ ~ret.success =>
                    \A p \in DOMAIN fallback_stores :
                        \E k \in DOMAIN trace :
                            trace[k].n = p /\ trace[k].store = fallback_stores[p]

\* C11 witness: three stores, each requested and each failed, and the
\* failure returned.
C11_Witness ==
    /\ fn = "query_with_fallback" /\ pc = "done"
    /\ fallback_stores = <<"primary", "secondary", "default">>
    /\ ret.error = "All stores failed"
    /\ Len(trace) = 3

\* max_retries of the fallback chain in C12: the default of the examples.
default_max_retries == 3

\* The requests sent to the p-th store of the list.
AttemptsAt(p) == Cardinality({k \in Requests(trace) : trace[k].n = p})

\* primary and secondary fail with APIError on every attempt, default answers.
PrimarySecondaryFail ==
    /\ fn = "query_with_fallback" /\ pc = "done" /\ ret.success
    /\ fallback_stores = <<"primary", "secondary", "default">>
    /\ ret.store_used = "default"
    /\ \A k \in Requests(trace) : trace[k].n < 3 => trace[k].out = "APIError"

C13_AuthQuotaNoFallback ==
    fn = "query_with_fallback" =>
        \A k \in Requests(trace) :
            trace[k].out \in {"AuthenticationError", "QuotaExceededError"} =>
                k = Len(trace) /\ inflight = 0

---------------------------------------------------------------------------
(* Claims about query_with_timeout and query_multiple.                     *)

\* C14: once the timer of query_with_timeout has fired, nothing follows: the
\* call has returned (not raised) the timeout entry, with an error and no
\* answer, no request is in flight, and no response was received.
C14_TimeoutOutcome ==
    fn = "query_with_timeout" =>
        /\ \A k \in DOMAIN trace :
              trace[k].ev = "timeout" =>
                  /\ k = Len(trace)
                  /\ pc = "done" /\ ret.kind = "return"
                  /\ ret.error = "Query timed out" /\ ret.answer = None /\ ~ret.success
                  /\ inflight = 0
                  /\ \A j \in Requests(trace) : trace[j].out = "cancelled"
        /\ \A k \in Requests(trace) : trace[k].out = "cancelled" => k < Len(trace)

\* C14 witness: the timer fired while the request was in flight.
C14_Witness ==
    /\ fn = "query_with_timeout" /\ pc = "done"
    /\ Len(trace) = 2
    /\ trace[1].out = "cancelled" /\ trace[2].ev = "timeout"

\* C15, as claimed: query_multiple never raises, and the list it returns has
\* one entry per query, in submission order.
C15_FailureIsolated ==
    fn = "query_multiple" =>
        /\ pc # "raised"
        /\ pc = "done" =>
              /\ Len(results) = Len(queries)
              /\ \A k \in DOMAIN results : results[k].query = queries[k]

---------------------------------------------------------------------------
(* Further claims about process_batch and query_with_retry.                *)

\* C16, as claimed: when process_batch has been cancelled, its in-flight
\* requests are abandoned and the caller has received a return value: the
\* report of the completed entries, marked as not fully processed.
C16_CancelledReturnsPartialReport ==
    (PBValid /\ pc = "cancelled") =>
        /\ InFlight = 0
        /\ ret.kind = "return"
        /\ ret.error = "not fully processed"

\* C17, as claimed: process_batch never returns when batch_size <= 0, never
\* raises when batch_size >= 1, and a list it returns has an entry for every
\* query.
C17_FailsExactlyOnInvalidBatchSize ==
    fn = "process_batch" =>
        /\ (batch_size <= 0 => pc # "done")
        /\ (batch_size >= 1 => pc # "raised")
        /\ (pc = "done" => Len(results) = Len(queries))

\* C18, as claimed: when query_with_retry returns, it returns the QueryResult
\* of a successful request.
C18_ReturnsResultOrRaises ==
    (fn = "query_with_retry" /\ pc = "done") =>
        /\ ret.success
        /\ ret.answer # None
        /\ \E k \in Requests(trace) : trace[k].out = "ok"

\* ceil(n / size) for size >= 1
CeilDiv(n, size) == (n + size - 1) \div size

\* C19: for batch_size >= 1, process_batch sleeps only rate_limit_delay, once
\* before each batch but the first (while batch number b is in flight or has
\* just been collected, b - 1 sleeps have been slept), and not after the last:
\* when it returns it has slept ceil(N / batch_size) - 1 times, 0 times for N = 0.
C19_PacingBetweenBatches ==
    PBValid =>
        /\ \A k \in DOMAIN trace : IsSleep(trace[k]) /\ trace[k].secs = rate_limit_delay
        /\ (pc \in {"gather", "sleep"} => Len(trace) * batch_size = i)
        /\ (pc = "done" =>
              Len(trace) = IF Len(queries) = 0 THEN 0
                           ELSE CeilDiv(Len(queries), batch_size) - 1)

\* C19 witness: four queries one at a time, returned after three sleeps.
C19_Witness ==
    /\ PBValid /\ pc = "done"
    /\ Len(queries) = 4 /\ batch_size = 1
    /\ Len(trace) = 3

\* C20: for batch_size >= 1, every query reported in results has been
\* requested exactly once, and its entry is the outcome of that request:
\* success with the answer to that query and no error if it succeeded, failure
\* with the error and no answer if not; no query beyond the current batch has
\* been requested, and at return every query has been requested once.
C20_OneRequestPerQuery ==
    PBValid =>
        /\ \A k \in DOMAIN issued : issued[k] <= 1
        /\ \A k \in 1..Len(results) :
              /\ issued[k] = 1
              /\ responded[k] = "ok" =>
                    /\ results[k].success
                    /\ results[k].answer = Answer(queries[k], store_id)
                    /\ results[k].error = None
              /\ responded[k] # "ok" =>
                    /\ ~results[k].success
                    /\ results[k].answer = None
                    /\ results[k].error = <<"error", responded[k]>>
        /\ (pc = "done" => \A k \in DOMAIN queries : issued[k] = 1 /\ k <= Len(results))

\* C20 witness: four queries in batches of three, all answered, the responses
\* out of order: four successes and no failure.
C20_Witness ==
    /\ PBValid /\ pc = "done"
    /\ Len(queries) = 4 /\ batch_size = 3
    /\ reordered
    /\ \A k \in 1..4 : results[k].success /\ issued[k] = 1

---------------------------------------------------------------------------
(* Further claims about robust_query and query_with_retry.                 *)

\* C22: in robust_query at most one request is in flight, the requests are
\* numbered 1, 2, 3, ... without gaps, the request in flight is the next
\* number, and the 'attempts' of a success is the number of requests issued.
C22_SequentialNumberedAttempts ==
    fn = "robust_query" =>
        /\ inflight \in {0, 1}
        /\ \A k \in Requests(trace) :
              trace[k].n = Cardinality({j \in Requests(trace) : j <= k})
        /\ (inflight = 1 => attempt + 1 = Cardinality(Requests(trace)) + 1)
        /\ (pc = "done" /\ ret.success) =>
              /\ ret.attempts = Cardinality(Requests(trace))
              /\ ret.attempts = NumRequests

\* C22 witness: a success on the third request, after a rate-limited and a
\* transient failure.
C22_Witness ==
    /\ fn = "robust_query" /\ pc = "done" /\ ret.success
    /\ ret.attempts = 3
    /\ \E j, k \in Requests(trace) :
          trace[j].out = "RateLimitError" /\ trace[k].out = "APIError"

\* C23, as claimed: a failure returned by robust_query follows at least one
\* request, for every max_retries >= 0.
C23_FailureOnlyAfterAttempt ==
    (fn = "robust_query" /\ pc = "done" /\ ~ret.success) =>
        Cardinality(Requests(trace)) >= 1

\* C24, as claimed: when robust_query has ended, the last thing it did was
\* not a sleep: every sleep was followed by another request.
C24_EverySleepBeforeRetry ==
    (fn = "robust_query" /\ pc \in {"done", "raised"}) =>
        \A k \in Sleeps(trace) : k < Len(trace) /\ IsRequest(trace[k + 1])

---------------------------------------------------------------------------
(* Claims about batch_with_error_handling and QueryView.post.              *)

\* The positions in trace of the requests for queries[k].
bw_RequestsOf(k) == {j \in Requests(trace) : trace[j].n = k}

\* The position in trace of the first and the last request for queries[k].
bw_First(k) == CHOOSE j \in bw_RequestsOf(k) : \A l \in bw_RequestsOf(k) : j <= l
bw_Last(k) == CHOOSE j \in bw_RequestsOf(k) : \A l \in bw_RequestsOf(k) : j >= l

\* What C21 says of the queries that have their result entry: one or two
\* requests, two iff the first was rate limited, the second after a sleep of
\* that error's retry_after, and the entry reports the last request.
bw_EntriesAsClaimed ==
    /\ \A k \in DOMAIN queries : issued[k] <= 2
    /\ Len(results) <= Len(queries)
    /\ \A k \in DOMAIN results :
          /\ results[k].query = queries[k]
          /\ issued[k] >= 1
          /\ Cardinality(bw_RequestsOf(k)) = issued[k]
          /\ issued[k] = 2 <=> trace[bw_First(k)].out = "RateLimitError"
          /\ issued[k] = 2 =>
                /\ trace[bw_First(k) + 1] = Sleep(k, trace[bw_First(k)].secs)
                /\ bw_Last(k) = bw_First(k) + 2
          /\ results[k].success <=> trace[bw_Last(k)].out = "ok"
          /\ ~results[k].success => results[k].error = <<"error", trace[bw_Last(k)].out>>

\* C21, as claimed: in batch_with_error_handling every query is requested at
\* most twice, a second time iff the first request was rate limited and after
\* a sleep of its retry_after, the entries are in submission order and report
\* the last request of their query, and when the function has ended every
\* query has its entry.
C21_AtMostOneRetryPerQuery ==
    fn = "batch_with_error_handling" =>
        /\ bw_EntriesAsClaimed
        /\ pc \in {"done", "raised"} => Len(results) = Len(queries)

\* What the code does keep: C21 for the calls that have not raised.
bw_HoldsUnlessRaised ==
    fn = "batch_with_error_handling" =>
        /\ bw_EntriesAsClaimed
        /\ pc = "done" => Len(results) = Len(queries)

\* C26, as claimed: a response of QueryView.post served from the cache is the
\* answer of the service to the request's query text in the request's store.
C26_CachedAnswerOfSameStore ==
    (fn = "QueryView.post" /\ response.status = 200 /\ response.cached) =>
        response.answer = Answer(request.query, request.store_id)

\* What the code does keep: a cached response answers the request's query text.
dj_CachedAnswerOfSameQuery ==
    (fn = "QueryView.post" /\ response.status = 200 /\ response.cached) =>
        \E s \in Stores : response.answer = Answer(request.query, s)

=============================================================================
